---------------------------- MODULE Spec2Model ----------------------------
(***************************************************************************)
(* A model of the Sun Ray authentication server's wire codec               *)
(* (src/src/auth.rs) and of the pipelined session it is bound to           *)
(* (src/src/auth.rs AuthProto, src/src/main.rs AuthenticationService).     *)
(*                                                                         *)
(* Bytes are one-character strings, buffers and strings are sequences of   *)
(* bytes.  Option<T> is a sequence of length 0 (None) or 1 (Some).          *)
(* Unsigned integers are kept as normalised digit sequences (most          *)
(* significant digit first, no leading zero) so that u32 and u64 keep      *)
(* their real width.                                                       *)
(***************************************************************************)
EXTENDS Integers, Sequences, FiniteSets, TLC

VARIABLES
    buf,      \* decoder: the input buffer (BytesMut) decode works on
    last,     \* decoder: record of the latest decode call (before, result)
    msgs,     \* decoder: the messages decode has returned so far, in order
    stream,   \* decoder: the bytes the buffer held initially
    pending,  \* decoder: the bytes of the stream that have not arrived yet
    partial,  \* decoder: some arrival ended in the middle of a line
    out,      \* encoder: the output buffer (BytesMut) encode appends to
    enc,      \* encoder: record of the encode call (message, before, result)
    sent,     \* session: per connection, all the bytes its client sends
    wire,     \* session: per connection, the bytes sent and not yet read
    rd,       \* session: per connection, the read buffer of the transport
    wr,       \* session: per connection, the bytes encode has written
    pc,       \* session: per connection, the step the session is at
    reqs,     \* session: per connection, the requests handed to the handler
    resps,    \* session: per connection, the results the handler gave
    encoded,  \* session: per connection, the results handed to encode
    proc      \* the server process: "running" or "aborted"

codecVars == <<buf, last, msgs, stream, pending, partial, out, enc>>
sessVars == <<sent, wire, rd, wr, pc, reqs, resps, encoded, proc>>
vars == <<codecVars, sessVars>>

Conns == {"c1", "c2"}

\* no connection has been accepted
NoSession ==
    /\ sent = [c \in Conns |-> <<>>]
    /\ wire = [c \in Conns |-> <<>>]
    /\ rd = [c \in Conns |-> <<>>]
    /\ wr = [c \in Conns |-> <<>>]
    /\ pc = [c \in Conns |-> "closed"]
    /\ reqs = [c \in Conns |-> <<>>]
    /\ resps = [c \in Conns |-> <<>>]
    /\ encoded = [c \in Conns |-> <<>>]
    /\ proc = "running"

---------------------------------------------------------------------------
(* Option and Result                                                       *)

None == <<>>
Some(x) == <<x>>
is_some(o) == Len(o) = 1
unwrap(o) == o[1]

Ok(v) == [kind |-> "Ok", val |-> v, err |-> ""]
Err(e) == [kind |-> "Err", val |-> None, err |-> e]
\* a panic raised by Option::expect / Result::expect
Panic(e) == [kind |-> "Panic", val |-> None, err |-> e]

---------------------------------------------------------------------------
(* Bytes and string literals of the source                                 *)

LF == "\n"
SP == " "
TAB == "\t"
CR == "\r"
EQ == "="
COMMA == ","
PLUS == "+"
\* a byte that occurs in no well-formed UTF-8 text
BAD_UTF8 == "0xFF"

S_infoReq == <<"i", "n", "f", "o", "R", "e", "q">>
S_keepAliveReq == <<"k", "e", "e", "p", "A", "l", "i", "v", "e", "R", "e", "q">>
S_keepAliveCnf == <<"k", "e", "e", "p", "A", "l", "i", "v", "e", "C", "n", "f">>
S_discInf == <<"d", "i", "s", "c", "I", "n", "f">>
S_discRsp == <<"d", "i", "s", "c", "R", "s", "p">>
S_connInf == <<"c", "o", "n", "n", "I", "n", "f">>
S_connRsp == <<"c", "o", "n", "n", "R", "s", "p">>
S_empty == <<"e", "m", "p", "t", "y">>
S_unknown == <<"u", "n", "k", "n", "o", "w", "n">>
S_MTU == <<"M", "T", "U">>
S_barrierLevel == <<"b", "a", "r", "r", "i", "e", "r", "L", "e", "v", "e", "l">>
S_cause == <<"c", "a", "u", "s", "e">>
S_clientRand == <<"c", "l", "i", "e", "n", "t", "R", "a", "n", "d">>
S_ddcconfig == <<"d", "d", "c", "c", "o", "n", "f", "i", "g">>
S_event == <<"e", "v", "e", "n", "t">>
S_firstServer == <<"f", "i", "r", "s", "t", "S", "e", "r", "v", "e", "r">>
S_fw == <<"f", "w">>
S_hw == <<"h", "w">>
S_id == <<"i", "d">>
S_initState == <<"i", "n", "i", "t", "S", "t", "a", "t", "e">>
S_keyTypes == <<"k", "e", "y", "T", "y", "p", "e", "s">>
S_namespace == <<"n", "a", "m", "e", "s", "p", "a", "c", "e">>
S_pn == <<"p", "n">>
S_realIP == <<"r", "e", "a", "l", "I", "P">>
S_sn == <<"s", "n">>
S_state == <<"s", "t", "a", "t", "e">>
S_tokenSeq == <<"t", "o", "k", "e", "n", "S", "e", "q">>
S_type == <<"t", "y", "p", "e">>
S_access == <<"a", "c", "c", "e", "s", "s">>

---------------------------------------------------------------------------
(* Library functions the codec calls, modelled by what they compute        *)

\* position as rposition would compute it: the offset of the last LF
position_of_last(b) ==
    IF \E i \in 1..Len(b) : b[i] = LF
    THEN Some((CHOOSE i \in 1..Len(b) :
                  b[i] = LF /\ \A j \in (i + 1)..Len(b) : b[j] # LF) - 1)
    ELSE None

\* buf.iter().position(|&b| b == b'\n'): 0-based offset of the first LF
position(b) ==
    IF \E i \in 1..Len(b) : b[i] = LF
    THEN Some((CHOOSE i \in 1..Len(b) :
                  b[i] = LF /\ \A j \in 1..(i - 1) : b[j] # LF) - 1)
    ELSE None

\* BytesMut::split_to(at): returns [0, at), the buffer keeps [at, len)
split_to(b, at) ==
    [head |-> SubSeq(b, 1, at), rest |-> SubSeq(b, at + 1, Len(b))]

\* str::from_utf8: Some(text) for well-formed UTF-8, None for Err
from_utf8(bytes) ==
    IF \E i \in 1..Len(bytes) : bytes[i] = BAD_UTF8 THEN None ELSE Some(bytes)

is_whitespace(c) == c \in {SP, TAB, LF, CR}

RECURSIVE split_ws_from(_, _, _)
split_ws_from(s, i, cur) ==
    LET flush == IF cur = <<>> THEN <<>> ELSE <<cur>>
    IN  IF i > Len(s) THEN flush
        ELSE IF is_whitespace(s[i]) THEN flush \o split_ws_from(s, i + 1, <<>>)
        ELSE split_ws_from(s, i + 1, Append(cur, s[i]))

\* str::split_whitespace: the maximal runs of non-whitespace, in order
split_whitespace(s) == split_ws_from(s, 1, <<>>)

RECURSIVE split_from(_, _, _, _)
split_from(s, sep, i, cur) ==
    IF i > Len(s) THEN <<cur>>
    ELSE IF s[i] = sep THEN <<cur>> \o split_from(s, sep, i + 1, <<>>)
    ELSE split_from(s, sep, i + 1, Append(cur, s[i]))

\* split as splitn(2, sep) would compute it: cut at the first separator only
splitn_2(s, sep) ==
    IF \E i \in 1..Len(s) : s[i] = sep
    THEN LET at == CHOOSE i \in 1..Len(s) : s[i] = sep /\ \A j \in 1..(i - 1) : s[j] # sep
         IN  <<SubSeq(s, 1, at - 1), SubSeq(s, at + 1, Len(s))>>
    ELSE <<s>>

\* split without its empty pieces
split_dropping_empty(s, sep) ==
    SelectSeq(split_from(s, sep, 1, <<>>), LAMBDA piece : piece # <<>>)

\* str::split(char): the pieces between separators, empty pieces kept
split(s, sep) == split_from(s, sep, 1, <<>>)

DecChars == <<"0", "1", "2", "3", "4", "5", "6", "7", "8", "9">>
HexLower == <<"a", "b", "c", "d", "e", "f">>
HexUpper == <<"A", "B", "C", "D", "E", "F">>

\* char::to_digit(radix)
to_digit(c, radix) ==
    IF \E d \in 1..Len(DecChars) : DecChars[d] = c
    THEN Some((CHOOSE d \in 1..Len(DecChars) : DecChars[d] = c) - 1)
    ELSE IF radix = 16 /\ \E d \in 1..Len(HexLower) : c \in {HexLower[d], HexUpper[d]}
    THEN Some((CHOOSE d \in 1..Len(HexLower) : c \in {HexLower[d], HexUpper[d]}) + 9)
    ELSE None

RECURSIVE strip_zeros(_)
strip_zeros(ds) ==
    IF Len(ds) > 1 /\ ds[1] = 0 THEN strip_zeros(Tail(ds)) ELSE ds

\* a > b for normalised digit sequences of one radix
gt_digits(a, b) ==
    \/ Len(a) > Len(b)
    \/ /\ Len(a) = Len(b)
       /\ \E i \in 1..Len(a) : a[i] > b[i] /\ \A j \in 1..(i - 1) : a[j] = b[j]

\* std::u32::MAX and std::u64::MAX, in decimal and in hexadecimal digits
U32_MAX == <<4, 2, 9, 4, 9, 6, 7, 2, 9, 5>>
U64_MAX == <<1, 8, 4, 4, 6, 7, 4, 4, 0, 7, 3, 7, 0, 9, 5, 5, 1, 6, 1, 5>>
U32_MAX_HEX == <<15, 15, 15, 15, 15, 15, 15, 15>>

\* {integer}::from_str_radix for an unsigned type with maximum max: an
\* optional '+', then one or more digits; None for Err(ParseIntError)
from_str_radix(src, radix, max) ==
    IF src = <<>> THEN None
    ELSE LET digits == IF src[1] = PLUS THEN Tail(src) ELSE src
         IN  IF digits = <<>> THEN None
             ELSE IF \E i \in 1..Len(digits) : to_digit(digits[i], radix) = None
             THEN None
             ELSE LET v == strip_zeros([i \in 1..Len(digits) |->
                                           unwrap(to_digit(digits[i], radix))])
                  IN  IF gt_digits(v, max) THEN None ELSE Some(v)

\* value.parse::<u32>() and value.parse::<u64>()
parse_u32(value) == from_str_radix(value, 10, U32_MAX)
parse_u64(value) == from_str_radix(value, 10, U64_MAX)

\* Ipv4Addr::from(u32) on the bytes in little-endian order: the four octets,
\* least significant first
Ipv4Addr_from_le(v) ==
    LET pad == [i \in 1..(8 - Len(v)) |-> 0] \o v
    IN  [i \in 1..4 |-> 16 * pad[2 * (5 - i) - 1] + pad[2 * (5 - i)]]

\* Ipv4Addr::from(u32): the four octets, most significant first
Ipv4Addr_from(v) ==
    LET pad == [i \in 1..(8 - Len(v)) |-> 0] \o v
    IN  [i \in 1..4 |-> 16 * pad[2 * i - 1] + pad[2 * i]]

\* Display for u32: decimal digits, no sign, no leading zero
fmt_u32(v) == [i \in 1..Len(v) |-> DecChars[v[i] + 1]]

---------------------------------------------------------------------------
(* AuthMessageType and AuthMessage                                         *)

AuthMessageType ==
    {"InfoReq", "KeepAliveReq", "KeepAliveCnf", "DiscInf", "DiscRsp",
     "ConnInf", "ConnRsp", "Unknown", "Empty"}

\* impl Display for AuthMessageType
fmt(t) ==
    CASE t = "InfoReq" -> S_infoReq
      [] t = "KeepAliveReq" -> S_keepAliveReq
      [] t = "KeepAliveCnf" -> S_keepAliveCnf
      [] t = "DiscInf" -> S_discInf
      [] t = "DiscRsp" -> S_discRsp
      [] t = "ConnInf" -> S_connInf
      [] t = "ConnRsp" -> S_connRsp
      [] t = "Empty" -> S_empty
      [] OTHER -> S_unknown

\* From<&str> as the inverse of Display: "empty" is read as Empty
AuthMessageType_from_display(s) ==
    IF \E t \in AuthMessageType : fmt(t) = s
    THEN CHOOSE t \in AuthMessageType : fmt(t) = s
    ELSE "Unknown"

\* impl From<&str> for AuthMessageType
AuthMessageType_from(s) ==
    CASE s = S_infoReq -> "InfoReq"
      [] s = S_keepAliveReq -> "KeepAliveReq"
      [] s = S_keepAliveCnf -> "KeepAliveCnf"
      [] s = S_discInf -> "DiscInf"
      [] s = S_discRsp -> "DiscRsp"
      [] s = S_connInf -> "ConnInf"
      [] s = S_connRsp -> "ConnRsp"
      [] OTHER -> "Unknown"

\* AuthMessage::default(): type Empty (Default for AuthMessageType), no field set
AuthMessage_default ==
    [message_type |-> "Empty", mtu |-> None, barrier_level |-> None,
     cause |-> None, client_rand |-> None, ddc_config |-> None,
     event |-> None, first_server |-> None, fw |-> None, hw |-> None,
     id |-> None, init_state |-> None, key_types |-> None,
     namespace |-> None, pn |-> None, real_ip |-> None, sn |-> None,
     state |-> None, token_seq |-> None, type_ |-> None, access |-> None]

FieldNames == DOMAIN AuthMessage_default \ {"message_type"}

---------------------------------------------------------------------------
(* Decoder for AuthCodec                                                   *)

\* the `match key` block of decode: the assignment one key=value token makes.
\* Ok(message) or the panic of the failed expect.
match_key(o, key, value) ==
    LET int(f) == LET p == parse_u32(value)
                  IN  IF is_some(p) THEN Ok([o EXCEPT ![f] = Some(unwrap(p))])
                      ELSE Panic("not an integer")
        long(f) == LET p == parse_u64(value)
                   IN  IF is_some(p) THEN Ok([o EXCEPT ![f] = Some(unwrap(p))])
                       ELSE Panic("not an integer")
        ip(f) == LET p == from_str_radix(value, 16, U32_MAX_HEX)
                 IN  IF is_some(p)
                     THEN Ok([o EXCEPT ![f] = Some(Ipv4Addr_from(unwrap(p)))])
                     ELSE Panic("not a hex integer")
        str(f) == Ok([o EXCEPT ![f] = Some(value)])
    IN  CASE key = S_MTU -> int("mtu")
          [] key = S_barrierLevel -> long("barrier_level")
          [] key = S_cause -> str("cause")
          [] key = S_clientRand -> str("client_rand")
          [] key = S_ddcconfig -> int("ddc_config")
          [] key = S_event -> str("event")
          [] key = S_firstServer -> ip("first_server")
          [] key = S_fw -> str("fw")
          [] key = S_hw -> str("hw")
          [] key = S_id -> str("id")
          [] key = S_initState -> int("init_state")
          [] key = S_keyTypes -> Ok([o EXCEPT !.key_types = Some(split(value, COMMA))])
          [] key = S_namespace -> str("namespace")
          [] key = S_pn -> int("pn")
          [] key = S_realIP -> ip("real_ip")
          [] key = S_sn -> str("sn")
          [] key = S_state -> str("state")
          [] key = S_tokenSeq -> int("token_seq")
          [] key = S_type -> str("type_")
          [] OTHER -> Ok(o)

\* the loop of decode with a `_` arm that refuses the key: a token whose key
\* no arm of `match key` assigns is a bad key/value pair
RECURSIVE decode_fields_refusing_other_keys(_, _, _)
decode_fields_refusing_other_keys(o, split_str, i) ==
    IF i > Len(split_str) THEN Ok(Some(o))
    ELSE LET kv_pair == split(split_str[i], EQ)
         IN  IF Len(kv_pair) # 2 THEN Err("bad key/value pair")
             ELSE IF match_key(AuthMessage_default, kv_pair[1], <<"0">>)
                         = Ok(AuthMessage_default)
             THEN Err("bad key/value pair")
             ELSE LET r == match_key(o, kv_pair[1], kv_pair[2])
                  IN  IF r.kind = "Panic" THEN r
                      ELSE decode_fields_refusing_other_keys(r.val, split_str, i + 1)

\* the `for kv_pair_str in split_str` loop of decode, from token i on
RECURSIVE decode_fields(_, _, _)
decode_fields(o, split_str, i) ==
    IF i > Len(split_str) THEN Ok(Some(o))
    ELSE LET kv_pair == split(split_str[i], EQ)
         IN  IF Len(kv_pair) # 2 THEN Err("bad key/value pair")
             ELSE LET r == match_key(o, kv_pair[1], kv_pair[2])
                  IN  IF r.kind = "Panic" THEN r
                      ELSE decode_fields(r.val, split_str, i + 1)

\* what decode makes of the bytes of one line (the match on str::from_utf8)
decode_line(line) ==
    LET s == from_utf8(line)
    IN  IF ~is_some(s) THEN Err("invalid string")
        ELSE LET split_str == split_whitespace(unwrap(s))
             IN  IF split_str = <<>> THEN Err("no message type")
                 ELSE decode_fields(
                          [AuthMessage_default EXCEPT
                              !.message_type = AuthMessageType_from(split_str[1])],
                          split_str, 2)

\* decode clearing a buffer that holds no complete line
decode_dropping_partial(b) ==
    LET i == position(b)
    IN  IF is_some(i)
        THEN LET line == split_to(b, unwrap(i))
                 delim == split_to(line.rest, 1)
             IN  [res |-> decode_line(line.head), buf |-> delim.rest]
        ELSE [res |-> Ok(None), buf |-> <<>>]

\* decode without its buf.split_to(1): the delimiter stays in the buffer
decode_keeping_delimiter(b) ==
    LET i == position(b)
    IN  IF is_some(i)
        THEN LET line == split_to(b, unwrap(i))
             IN  [res |-> decode_line(line.head), buf |-> line.rest]
        ELSE [res |-> Ok(None), buf |-> b]

\* decode taking the bytes of an unfinished line as a line, as a decoder
\* does at the end of its input
decode_flushing_partial(b) ==
    LET i == position(b)
    IN  IF is_some(i)
        THEN LET line == split_to(b, unwrap(i))
                 delim == split_to(line.rest, 1)
             IN  [res |-> decode_line(line.head), buf |-> delim.rest]
        ELSE IF b = <<>> THEN [res |-> Ok(None), buf |-> b]
        ELSE [res |-> decode_line(b), buf |-> <<>>]

\* AuthCodec::decode: the result and the buffer the call leaves behind.
\* The line and its delimiter are split off before the line is parsed.
decode(b) ==
    LET i == position(b)
    IN  IF is_some(i)
        THEN LET line == split_to(b, unwrap(i))
                 delim == split_to(line.rest, 1)
             IN  [res |-> decode_line(line.head), buf |-> delim.rest]
        ELSE [res |-> Ok(None), buf |-> b]

---------------------------------------------------------------------------
(* Encoder for AuthCodec                                                   *)

Unit == <<>>

\* encode without its early return for Empty: the Display form is written
encode_writing_empty(msg, b) ==
    LET out0 == fmt(msg.message_type)
        out1 == IF is_some(msg.access)
                THEN out0 \o <<SP>> \o S_access \o <<EQ>> \o unwrap(msg.access)
                ELSE out0
        out2 == IF is_some(msg.token_seq)
                THEN out1 \o <<SP>> \o S_tokenSeq \o <<EQ>>
                          \o fmt_u32(unwrap(msg.token_seq))
                ELSE out1
    IN  [res |-> Ok(Unit), buf |-> b \o out2 \o <<LF>>]

\* encode writing tokenSeq before access
encode_token_seq_first(msg, b) ==
    IF msg.message_type = "Empty" THEN [res |-> Ok(Unit), buf |-> b]
    ELSE LET out0 == fmt(msg.message_type)
             out1 == IF is_some(msg.token_seq)
                     THEN out0 \o <<SP>> \o S_tokenSeq \o <<EQ>>
                               \o fmt_u32(unwrap(msg.token_seq))
                     ELSE out0
             out2 == IF is_some(msg.access)
                     THEN out1 \o <<SP>> \o S_access \o <<EQ>> \o unwrap(msg.access)
                     ELSE out1
         IN  [res |-> Ok(Unit), buf |-> b \o out2 \o <<LF>>]

\* encode answering Empty with a blank line instead of nothing
encode_blank_line_for_empty(msg, b) ==
    IF msg.message_type = "Empty" THEN [res |-> Ok(Unit), buf |-> b \o <<LF>>]
    ELSE encode_writing_empty(msg, b)

\* AuthCodec::encode: the result and the buffer the call leaves behind
encode(msg, b) ==
    IF msg.message_type = "Empty" THEN [res |-> Ok(Unit), buf |-> b]
    ELSE LET out0 == fmt(msg.message_type)
             out1 == IF is_some(msg.access)
                     THEN out0 \o <<SP>> \o S_access \o <<EQ>> \o unwrap(msg.access)
                     ELSE out0
             out2 == IF is_some(msg.token_seq)
                     THEN out1 \o <<SP>> \o S_tokenSeq \o <<EQ>>
                               \o fmt_u32(unwrap(msg.token_seq))
                     ELSE out1
         IN  [res |-> Ok(Unit), buf |-> b \o out2 \o <<LF>>]

---------------------------------------------------------------------------
(* Inputs of the decoder: the buffers the transport can hand to decode     *)

\* the most complete lines a buffer holds at once
MaxLines == 2

kv(k, v) == k \o <<EQ>> \o v

\* message-type tokens: the seven tags, the Display form of Empty, others
TypeTokens ==
    {S_infoReq, S_keepAliveReq, S_keepAliveCnf, S_discInf, S_discRsp,
     S_connInf, S_connRsp, S_empty, S_unknown, <<"f", "o", "o">>,
     <<"I", "n", "f", "o", "R", "e", "q">>}

DecodedKeys ==
    {S_MTU, S_barrierLevel, S_cause, S_clientRand, S_ddcconfig, S_event,
     S_firstServer, S_fw, S_hw, S_id, S_initState, S_keyTypes, S_namespace,
     S_pn, S_realIP, S_sn, S_state, S_tokenSeq, S_type}

\* keys a token may carry: those decode matches, access, and unknown ones
Keys == DecodedKeys \cup {S_access, <<"q">>, <<"m", "t", "u">>, <<>>}

Values ==
    {<<"7">>, <<"x">>, <<>>, <<"+", "7">>, <<"0", "0", "7">>, <<"-", "1">>,
     <<"4", "2", "9", "4", "9", "6", "7", "2", "9", "5">>,
     <<"4", "2", "9", "4", "9", "6", "7", "2", "9", "6">>,
     <<"1", "8", "4", "4", "6", "7", "4", "4", "0", "7", "3", "7", "0", "9",
       "5", "5", "1", "6", "1", "6">>,
     <<"0", "A", "0", "0", "0", "0", "0", "1">>,
     <<"1", "0", "0", "0", "0", "0", "0", "0", "0">>,
     <<"r", "s", "a", ",", "d", "s", "a">>}

\* every key with every value
FieldTokens == {kv(k, v) : k \in Keys, v \in Values}

\* field tokens combined two and three to a line: well-formed ones, one with
\* a value that does not parse, and ones without exactly one '='
FewTokens ==
    {kv(S_tokenSeq, <<"7">>), kv(S_MTU, <<"1">>), kv(S_MTU, <<"x">>),
     kv(<<"q">>, <<"1">>), kv(S_access, <<"o", "k">>), S_MTU,
     kv(kv(<<"a">>, <<"b">>), <<"c">>), <<EQ>>}

OddLines ==
    {<<>>, <<SP>>, <<TAB, SP>>, <<CR>>, <<BAD_UTF8>>,
     <<SP>> \o S_connRsp, S_connRsp \o <<CR>>,
     <<TAB>> \o S_connRsp \o <<SP, SP>> \o kv(S_tokenSeq, <<"7">>) \o <<SP>>,
     S_connRsp \o <<SP, BAD_UTF8>>,
     S_connRsp \o <<SP>> \o S_MTU \o <<SP, EQ, SP>> \o <<"1">>}

\* lines on which a key occurs more than once, with different values
DupLines ==
    {S_infoReq \o <<SP>> \o kv(S_MTU, <<"1">>) \o <<SP>> \o kv(S_MTU, <<"2">>),
     S_infoReq \o <<SP>> \o kv(S_MTU, <<"2">>) \o <<SP>> \o kv(S_MTU, <<"1">>),
     S_infoReq \o <<SP>> \o kv(S_MTU, <<"1">>) \o <<SP>> \o kv(S_MTU, <<"2">>)
         \o <<SP>> \o kv(S_MTU, <<"0", "0", "7">>),
     S_infoReq \o <<SP>> \o kv(S_MTU, <<"1">>) \o <<SP>> \o kv(<<"q">>, <<"1">>)
         \o <<SP>> \o kv(S_hw, <<"x">>) \o <<SP>> \o kv(S_MTU, <<"2">>),
     S_infoReq \o <<SP>> \o kv(S_cause, <<"a">>) \o <<SP>> \o kv(S_cause, <<>>),
     S_keepAliveReq \o <<SP>> \o kv(S_keyTypes, <<"r", "s", "a", ",", "d", "s", "a">>)
         \o <<SP>> \o kv(S_keyTypes, <<"d", "s", "a">>),
     S_connInf \o <<SP>> \o kv(S_firstServer, <<"0", "A", "0", "0", "0", "0", "0", "1">>)
         \o <<SP>> \o kv(S_firstServer, <<"7">>),
     S_connRsp \o <<SP>> \o kv(S_access, <<"a">>) \o <<SP>> \o kv(S_access, <<"b">>),
     S_infoReq \o <<SP>> \o kv(S_MTU, <<"1">>) \o <<SP>> \o kv(S_MTU, <<"x">>)}

\* hexadecimal address values: both cases, the least and the greatest, one
\* with a leading zero before eight digits, one of nine digits that does not
\* fit 32 bits, one with a prefix that is no digit
IpValues ==
    {<<"F", "F", "F", "F", "F", "F", "F", "F">>,
     <<"c", "0", "a", "8", "0", "1", "0", "1">>,
     <<"1", "2", "3", "4", "a", "b", "C", "D">>,
     <<"8", "0", "0", "0", "0", "0", "0", "0">>,
     <<"0">>,
     <<"0", "0", "0", "0", "0", "0", "0", "0", "A">>,
     <<"F", "F", "F", "F", "F", "F", "F", "F", "F">>,
     <<"0", "x", "0", "A">>}

IpLines == {S_connInf \o <<SP>> \o kv(k, v) : k \in {S_firstServer, S_realIP}, v \in IpValues}

\* keyTypes values: empty segments at either end and in the middle, only
\* commas, a segment that recurs
KeyTypesValues ==
    {<<",">>, <<",", ",">>, <<"a", ",">>, <<",", "a">>, <<"a", ",", ",", "b">>,
     <<"a", ",", "a">>, <<"d", "s", "a", ",", "r", "s", "a", ",", "d", "s", "a">>}

KeyTypesLines == {S_keepAliveReq \o <<SP>> \o kv(S_keyTypes, v) : v \in KeyTypesValues}

\* the lines a buffer may start with (without their delimiter)
Lines ==
    TypeTokens
    \cup DupLines
    \cup IpLines
    \cup KeyTypesLines
    \cup {t \o <<SP>> \o f : t \in {S_infoReq, <<"f", "o", "o">>}, f \in FieldTokens}
    \cup {S_connInf \o <<SP>> \o f \o <<SP>> \o g : f \in FewTokens, g \in FewTokens}
    \cup {S_discInf \o <<SP>> \o f \o <<SP>> \o g \o <<SP>> \o h :
             f \in {kv(S_tokenSeq, <<"7">>), S_MTU, kv(S_MTU, <<"x">>)},
             g \in {kv(S_tokenSeq, <<"7">>), S_MTU, kv(S_MTU, <<"x">>)},
             h \in {kv(S_tokenSeq, <<"7">>), S_MTU, kv(S_MTU, <<"x">>)}}
    \cup OddLines

\* the lines that may follow the first one
NextLines ==
    {S_keepAliveReq, S_connRsp \o <<SP>> \o kv(S_tokenSeq, <<"7">>), <<>>,
     S_infoReq \o <<SP>> \o kv(S_MTU, <<"x">>), S_connInf \o <<SP>> \o S_MTU}

\* an incomplete last line
Tails == {<<>>, <<"c", "o", "n">>}

RECURSIVE LinesThenTail(_)
LinesThenTail(n) ==
    IF n = 0 THEN Tails
    ELSE Tails \cup {l \o <<LF>> \o r : l \in NextLines, r \in LinesThenTail(n - 1)}

\* no complete line, or up to MaxLines complete lines and a tail
InitBufs ==
    Lines \cup {l \o <<LF>> \o r : l \in Lines, r \in LinesThenTail(MaxLines - 1)}

---------------------------------------------------------------------------
(* The decoder as a state machine: decode called again and again on one    *)
(* buffer, as Framed does until it is told Ok(None)                        *)

NoCall == [called |-> FALSE, before |-> <<>>, res |-> Ok(None)]

NoEncode ==
    [called |-> FALSE, msg |-> AuthMessage_default, before |-> <<>>,
     after |-> <<>>, res |-> Ok(Unit)]

Init ==
    /\ buf \in InitBufs
    /\ stream = buf
    /\ pending = <<>> /\ partial = FALSE
    /\ last = NoCall
    /\ msgs = <<>>
    /\ out = <<>>
    /\ enc = NoEncode
    /\ NoSession

\* one call of AuthCodec::decode(&mut buf); a panic ends the calls
Decode ==
    /\ last.res.kind # "Panic"
    /\ LET d == decode(buf)
       IN  /\ buf' = d.buf
           /\ last' = [called |-> TRUE, before |-> buf, res |-> d.res]
           /\ msgs' = IF d.res.kind = "Ok" /\ is_some(d.res.val)
                      THEN Append(msgs, unwrap(d.res.val)) ELSE msgs
    /\ UNCHANGED <<stream, pending, partial, out, enc>>
    /\ UNCHANGED sessVars

Next == Decode

Spec == Init /\ [][Next]_vars

---------------------------------------------------------------------------
(* Vocabulary of the properties, stated on the bytes and not through the   *)
(* codec's own framing                                                     *)

HasLF(b) == \E i \in 1..Len(b) : b[i] = LF

\* offset (1-based) of the first LF of a buffer that has one
FirstLF(b) == CHOOSE i \in 1..Len(b) : b[i] = LF /\ \A j \in 1..(i - 1) : b[j] # LF

\* the first complete line of a buffer, and the bytes after its delimiter
LineOf(b) == SubSeq(b, 1, FirstLF(b) - 1)
AfterLine(b) == SubSeq(b, FirstLF(b) + 1, Len(b))

RECURSIVE CompleteLines(_)
\* the complete lines of a buffer, in order
CompleteLines(b) ==
    IF HasLF(b) THEN <<LineOf(b)>> \o CompleteLines(AfterLine(b)) ELSE <<>>

RECURSIVE TailOf(_)
\* what follows the last delimiter
TailOf(b) == IF HasLF(b) THEN TailOf(AfterLine(b)) ELSE b

RECURSIVE DropLines(_, _)
\* the buffer without its first n complete lines and their delimiters
DropLines(b, n) == IF n = 0 THEN b ELSE DropLines(AfterLine(b), n - 1)

CountEq(tok) == Cardinality({i \in 1..Len(tok) : tok[i] = EQ})

\* key and value of a token with exactly one '='
KeyOf(tok) == SubSeq(tok, 1, (CHOOSE i \in 1..Len(tok) : tok[i] = EQ) - 1)
ValueOf(tok) == SubSeq(tok, (CHOOSE i \in 1..Len(tok) : tok[i] = EQ) + 1, Len(tok))

U32Keys == {S_MTU, S_ddcconfig, S_initState, S_pn, S_tokenSeq}
U64Keys == {S_barrierLevel}
HexKeys == {S_firstServer, S_realIP}

\* the value of a key=value token parses as the type the key declares
ValueParses(tok) ==
    /\ KeyOf(tok) \in U32Keys => is_some(parse_u32(ValueOf(tok)))
    /\ KeyOf(tok) \in U64Keys => is_some(parse_u64(ValueOf(tok)))
    /\ KeyOf(tok) \in HexKeys => is_some(from_str_radix(ValueOf(tok), 16, U32_MAX_HEX))

WellFormedField(tok) == CountEq(tok) = 1 /\ ValueParses(tok)

IsText(line) == \A i \in 1..Len(line) : line[i] # BAD_UTF8

TokensOf(line) == split_whitespace(line)

\* a line decode is specified to accept
WellFormedLine(line) ==
    /\ IsText(line)
    /\ Len(TokensOf(line)) >= 1
    /\ \A i \in 2..Len(TokensOf(line)) : WellFormedField(TokensOf(line)[i])

StringFields ==
    {"cause", "client_rand", "event", "fw", "hw", "id", "namespace", "sn",
     "state", "type_", "access"}

\* no string of the message holds a line delimiter
NoLFInMessage(m) ==
    /\ \A f \in StringFields : is_some(m[f]) => ~HasLF(unwrap(m[f]))
    /\ is_some(m.key_types) =>
           \A i \in 1..Len(unwrap(m.key_types)) : ~HasLF(unwrap(m.key_types)[i])

Returned(r) == r.kind = "Ok" /\ is_some(r.val)
Incomplete(r) == r.kind = "Ok" /\ ~is_some(r.val)

---------------------------------------------------------------------------
(* Properties of the decoder, under Spec                                   *)

\* C1: a decode call on a buffer without any 0x0A byte (the empty buffer
\* included) returns Ok(None) and leaves the buffer as it was; as the buffer
\* is unchanged, so does every repetition of the call.
C1_IncompleteLeavesBuffer ==
    (last.called /\ ~HasLF(last.before)) =>
        (Incomplete(last.res) /\ buf = last.before)

\* a call on a non-empty buffer without LF, made after a line was drained
C1_Witness ==
    /\ last.called /\ ~HasLF(last.before)
    /\ last.before # <<>> /\ Len(msgs) > 0

\* C2: when the buffer holds k well-formed complete lines and a tail, the
\* calls return the messages of lines 1..k in buffer order, the j-th call
\* removes exactly line j and its delimiter, no message holds the delimiter,
\* the call after the k-th reports Ok(None) and the buffer is then the tail.
C2_DrainsLinesInOrder ==
    LET ls == CompleteLines(stream)
        j == Len(msgs)
    IN  (\A i \in 1..Len(ls) : WellFormedLine(ls[i])) =>
            /\ j <= Len(ls)
            /\ buf = DropLines(stream, j)
            /\ \A i \in 1..j :
                   /\ Returned(decode_line(ls[i]))
                   /\ msgs[i] = unwrap(decode_line(ls[i]).val)
                   /\ NoLFInMessage(msgs[i])
            /\ (last.called /\ HasLF(last.before)) => Returned(last.res)
            /\ (last.called /\ ~HasLF(last.before)) =>
                   (Incomplete(last.res) /\ j = Len(ls) /\ buf = TailOf(stream))

\* two lines were drained, the third call said Ok(None), a tail is left
C2_Witness ==
    /\ Len(CompleteLines(stream)) = 2 /\ Len(msgs) = 2
    /\ msgs[1].message_type # msgs[2].message_type
    /\ last.called /\ Incomplete(last.res) /\ buf # <<>>

\* the first line of the buffer a call worked on has a key=value token whose
\* value does not parse as the type its key declares
BadValueLine(b) ==
    /\ HasLF(b) /\ IsText(LineOf(b))
    /\ \E i \in 2..Len(TokensOf(LineOf(b))) :
           /\ CountEq(TokensOf(LineOf(b))[i]) = 1
           /\ ~ValueParses(TokensOf(LineOf(b))[i])

\* C3: a decode call on a complete line with a field value that does not
\* parse as its declared type returns Err as its result; it does not panic.
C3_BadValueIsErrNotPanic ==
    (last.called /\ BadValueLine(last.before)) => last.res.kind = "Err"

\* C4 as claimed: after a decode call that failed on a malformed line the
\* buffer still begins with that line: the call did not advance past it and
\* left the buffer as it was.
C4_FailureKeepsLine ==
    (last.called /\ last.res.kind # "Ok") => buf = last.before

\* C4 as amended: a decode call that fails on a malformed line (an Err
\* result or a panic) has consumed the line: the buffer it leaves is exactly
\* the bytes that followed the line's delimiter.
C4_FailureConsumesLine ==
    (last.called /\ last.res.kind # "Ok") =>
        (HasLF(last.before) /\ buf = AfterLine(last.before))

\* a call returned Err on a line that other bytes follow
C4_Witness ==
    /\ last.called /\ last.res.kind = "Err"
    /\ HasLF(last.before) /\ AfterLine(last.before) # <<>>

\* the first line of the buffer has no token, or has a field token without
\* exactly one '=' that only well-formed fields precede
NoTypeOrBadPair(b) ==
    /\ HasLF(b)
    /\ LET toks == TokensOf(LineOf(b))
       IN  \/ Len(toks) = 0
           \/ \E i \in 2..Len(toks) :
                  /\ CountEq(toks[i]) # 1
                  /\ \A k \in 2..(i - 1) : WellFormedField(toks[k])

\* C9: a complete line without any token, or with a field token that does not
\* hold exactly one '=' (whatever well-formed fields precede it, whatever
\* tokens follow it), makes decode return Err and no message.
C9_NoTypeOrBadPairIsErr ==
    (last.called /\ NoTypeOrBadPair(last.before)) =>
        (last.res.kind = "Err" /\ ~is_some(last.res.val))

\* Err on a line whose bad token stands between two well-formed fields
C9_Witness ==
    /\ last.called /\ NoTypeOrBadPair(last.before) /\ last.res.kind = "Err"
    /\ LET toks == TokensOf(LineOf(last.before))
       IN  /\ Len(toks) = 4
           /\ WellFormedField(toks[2]) /\ CountEq(toks[3]) # 1
           /\ WellFormedField(toks[4])

\* the key of each field in the field table
WireKey(f) ==
    CASE f = "mtu" -> <<"M", "T", "U">>
      [] f = "barrier_level" -> <<"b", "a", "r", "r", "i", "e", "r", "L", "e", "v", "e", "l">>
      [] f = "cause" -> <<"c", "a", "u", "s", "e">>
      [] f = "client_rand" -> <<"c", "l", "i", "e", "n", "t", "R", "a", "n", "d">>
      [] f = "ddc_config" -> <<"d", "d", "c", "c", "o", "n", "f", "i", "g">>
      [] f = "event" -> <<"e", "v", "e", "n", "t">>
      [] f = "first_server" -> <<"f", "i", "r", "s", "t", "S", "e", "r", "v", "e", "r">>
      [] f = "fw" -> <<"f", "w">>
      [] f = "hw" -> <<"h", "w">>
      [] f = "id" -> <<"i", "d">>
      [] f = "init_state" -> <<"i", "n", "i", "t", "S", "t", "a", "t", "e">>
      [] f = "key_types" -> <<"k", "e", "y", "T", "y", "p", "e", "s">>
      [] f = "namespace" -> <<"n", "a", "m", "e", "s", "p", "a", "c", "e">>
      [] f = "pn" -> <<"p", "n">>
      [] f = "real_ip" -> <<"r", "e", "a", "l", "I", "P">>
      [] f = "sn" -> <<"s", "n">>
      [] f = "state" -> <<"s", "t", "a", "t", "e">>
      [] f = "token_seq" -> <<"t", "o", "k", "e", "n", "S", "e", "q">>
      [] f = "type_" -> <<"t", "y", "p", "e">>
      [] f = "access" -> <<"a", "c", "c", "e", "s", "s">>

\* a field token of the line has exactly this key
KeyOnLine(line, key) ==
    \E i \in 2..Len(TokensOf(line)) :
        CountEq(TokensOf(line)[i]) = 1 /\ KeyOf(TokensOf(line)[i]) = key

\* the latest call returned a message for the first line of its buffer
DecodedLine == last.called /\ HasLF(last.before) /\ Returned(last.res)

\* C12: in a decoded message a field is set if and only if a token with the
\* field's exact, case-sensitive key is on the line, for every field of the
\* field table (access included); a field whose key is not on the line is
\* unset.
C12_FieldSetIffKeyOnLine ==
    DecodedLine =>
        \A f \in FieldNames :
            is_some(unwrap(last.res.val)[f])
                <=> KeyOnLine(LineOf(last.before), WireKey(f))

\* the keys of the field table
TableKeys == {WireKey(f) : f \in FieldNames}

\* a key=value token whose key is not in the field table
UnknownKeyToken(tok) == CountEq(tok) = 1 /\ KeyOf(tok) \notin TableKeys

RECURSIVE JoinTokens(_)
\* the tokens as a line, one space between them
JoinTokens(toks) ==
    IF Len(toks) = 0 THEN <<>>
    ELSE IF Len(toks) = 1 THEN toks[1]
    ELSE toks[1] \o <<" ">> \o JoinTokens(Tail(toks))

RECURSIVE DropUnknown(_)
\* field tokens without those whose key is not in the field table
DropUnknown(toks) ==
    IF toks = <<>> THEN <<>>
    ELSE IF UnknownKeyToken(Head(toks)) THEN DropUnknown(Tail(toks))
    ELSE <<Head(toks)>> \o DropUnknown(Tail(toks))

\* the line with its unknown-key field tokens removed
WithoutUnknown(line) ==
    JoinTokens(<<TokensOf(line)[1]>> \o DropUnknown(Tail(TokensOf(line))))

\* a text line with a type token and an unknown-key field token, well-formed
\* once these tokens are removed
UnknownKeyLine(b) ==
    /\ HasLF(b) /\ IsText(LineOf(b)) /\ Len(TokensOf(LineOf(b))) >= 2
    /\ \E i \in 2..Len(TokensOf(LineOf(b))) : UnknownKeyToken(TokensOf(LineOf(b))[i])
    /\ WellFormedLine(WithoutUnknown(LineOf(b)))

\* C13: a key=value token whose key is not in the field table is a no-op:
\* decode of a line holding such tokens returns a message, the one that
\* decoding the line without those tokens gives.
C13_UnknownKeyIsNoOp ==
    (last.called /\ UnknownKeyLine(last.before)) =>
        /\ Returned(last.res)
        /\ last.res = decode_line(WithoutUnknown(LineOf(last.before)))

\* a decoded line with an unknown-key token and a field that was set
C13_Witness ==
    /\ last.called /\ UnknownKeyLine(last.before) /\ Returned(last.res)
    /\ Len(TokensOf(LineOf(last.before))) = 3
    /\ UnknownKeyToken(TokensOf(LineOf(last.before))[2])
    /\ is_some(unwrap(last.res.val).token_seq)

\* the indexes of the field tokens of a line that carry the key
Occurrences(line, key) ==
    {i \in 2..Len(TokensOf(line)) :
        CountEq(TokensOf(line)[i]) = 1 /\ KeyOf(TokensOf(line)[i]) = key}

\* the value of the rightmost token of the line that carries the key
RightmostValue(line, key) ==
    ValueOf(TokensOf(line)[CHOOSE i \in Occurrences(line, key) :
                              \A j \in Occurrences(line, key) : j <= i])

\* what a well-formed wire value is as a value of the field's type
ValueAs(f, v) ==
    CASE f \in {"mtu", "ddc_config", "init_state", "pn", "token_seq"} ->
             unwrap(parse_u32(v))
      [] f = "barrier_level" -> unwrap(parse_u64(v))
      [] f \in {"first_server", "real_ip"} ->
             Ipv4Addr_from(unwrap(from_str_radix(v, 16, U32_MAX_HEX)))
      [] f = "key_types" -> split(v, ",")
      [] OTHER -> v

\* a well-formed first line on which a key of the field table occurs more
\* than once
DuplicateKeyLine(b) ==
    /\ HasLF(b) /\ WellFormedLine(LineOf(b))
    /\ \E f \in FieldNames : Cardinality(Occurrences(LineOf(b), WireKey(f))) >= 2

\* C14: when a key of the field table occurs more than once on a line with
\* well-formed values, decode returns a message and the field holds the
\* value of the rightmost occurrence.
C14_LastWriteWins ==
    (last.called /\ DuplicateKeyLine(last.before)) =>
        /\ Returned(last.res)
        /\ \A f \in FieldNames :
               Cardinality(Occurrences(LineOf(last.before), WireKey(f))) >= 2 =>
                   unwrap(last.res.val)[f] =
                       Some(ValueAs(f, RightmostValue(LineOf(last.before), WireKey(f))))

\* the seven message types that have a tag of their own
TaggedTypes ==
    {"InfoReq", "KeepAliveReq", "KeepAliveCnf", "DiscInf", "DiscRsp",
     "ConnInf", "ConnRsp"}

\* the tag of each of them
TagOf ==
    [t \in TaggedTypes |->
        CASE t = "InfoReq" -> <<"i", "n", "f", "o", "R", "e", "q">>
          [] t = "KeepAliveReq" -> <<"k", "e", "e", "p", "A", "l", "i", "v", "e", "R", "e", "q">>
          [] t = "KeepAliveCnf" -> <<"k", "e", "e", "p", "A", "l", "i", "v", "e", "C", "n", "f">>
          [] t = "DiscInf" -> <<"d", "i", "s", "c", "I", "n", "f">>
          [] t = "DiscRsp" -> <<"d", "i", "s", "c", "R", "s", "p">>
          [] t = "ConnInf" -> <<"c", "o", "n", "n", "I", "n", "f">>
          [] t = "ConnRsp" -> <<"c", "o", "n", "n", "R", "s", "p">>]

\* the type a tag stands for
TypeOfTag(tok) ==
    IF \E t \in TaggedTypes : TagOf[t] = tok
    THEN CHOOSE t \in TaggedTypes : TagOf[t] = tok
    ELSE "Unknown"

\* C15: the type of a decoded message is the type of token 0 when token 0 is
\* exactly one of the seven tags and Unknown for every other string, the
\* string "empty" included; a tag that is not recognised is no error (a
\* well-formed line is decoded whatever its token 0 is), and decode never
\* returns a message of type Empty.
C15_TypeFromFirstToken ==
    /\ \A i \in 1..Len(msgs) : msgs[i].message_type # "Empty"
    /\ (last.called /\ HasLF(last.before) /\ WellFormedLine(LineOf(last.before))) =>
           /\ Returned(last.res)
           /\ unwrap(last.res.val).message_type =
                  TypeOfTag(TokensOf(LineOf(last.before))[1])
    /\ DecodedLine =>
           unwrap(last.res.val).message_type =
               TypeOfTag(TokensOf(LineOf(last.before))[1])

\* a line whose token 0 is the string "empty" was decoded, to type Unknown
C15_Witness ==
    /\ DecodedLine
    /\ TokensOf(LineOf(last.before))[1] = <<"e", "m", "p", "t", "y">>
    /\ unwrap(last.res.val).message_type = "Unknown"
    /\ msgs # <<>>

\* the hexadecimal digits, in the order of their values
HexDigits ==
    <<{"0"}, {"1"}, {"2"}, {"3"}, {"4"}, {"5"}, {"6"}, {"7"}, {"8"}, {"9"},
      {"a", "A"}, {"b", "B"}, {"c", "C"}, {"d", "D"}, {"e", "E"}, {"f", "F"}>>

IsHexDigit(c) == \E d \in 1..16 : c \in HexDigits[d]
HexDigitValue(c) == (CHOOSE d \in 1..16 : c \in HexDigits[d]) - 1

\* a hexadecimal number below 2^32: one or more hex digits, all zero but the
\* last eight
ValidHex32(v) ==
    /\ Len(v) >= 1
    /\ \A i \in 1..Len(v) : IsHexDigit(v[i])
    /\ \A i \in 1..(Len(v) - 8) : v[i] = "0"

RECURSIVE HexNumber(_)
\* the number a string of at most four hex digits denotes
HexNumber(v) ==
    IF v = <<>> THEN 0
    ELSE 16 * HexNumber(SubSeq(v, 1, Len(v) - 1)) + HexDigitValue(v[Len(v)])

\* v div 2^16 and v mod 2^16 of the number v a valid hex string denotes
HighHalf(v) ==
    IF Len(v) <= 4 THEN 0
    ELSE HexNumber(SubSeq(v, IF Len(v) > 8 THEN Len(v) - 7 ELSE 1, Len(v) - 4))
LowHalf(v) == HexNumber(SubSeq(v, IF Len(v) > 4 THEN Len(v) - 3 ELSE 1, Len(v)))

\* the address whose octets are the bytes of v, most significant first:
\* v div 2^24, (v div 2^16) mod 256, (v div 2^8) mod 256, v mod 256
BigEndianAddress(v) ==
    <<HighHalf(v) \div 256, HighHalf(v) % 256, LowHalf(v) \div 256, LowHalf(v) % 256>>

AddressFields == {"first_server", "real_ip"}

\* the first line is a type and one address token with a valid hex value
HexAddressLine(b, f) ==
    /\ HasLF(b) /\ IsText(LineOf(b)) /\ Len(TokensOf(LineOf(b))) = 2
    /\ CountEq(TokensOf(LineOf(b))[2]) = 1
    /\ KeyOf(TokensOf(LineOf(b))[2]) = WireKey(f)
    /\ ValidHex32(ValueOf(TokensOf(LineOf(b))[2]))

\* C17: a firstServer or realIP value that is a hex number v below 2^32 is
\* decoded to the address whose four octets are the bytes of v in big-endian
\* order, the first v div 2^24 and the last v mod 256: 0A000001 is 10.0.0.1.
C17_HexIsBigEndianAddress ==
    \A f \in AddressFields :
        /\ (last.called /\ HexAddressLine(last.before, f)) =>
               /\ Returned(last.res)
               /\ unwrap(last.res.val)[f] =
                      Some(BigEndianAddress(ValueOf(TokensOf(LineOf(last.before))[2])))
        /\ (/\ DecodedLine
            /\ KeyOnLine(LineOf(last.before), WireKey(f))
            /\ ValidHex32(RightmostValue(LineOf(last.before), WireKey(f)))) =>
               unwrap(last.res.val)[f] =
                   Some(BigEndianAddress(RightmostValue(LineOf(last.before), WireKey(f))))

\* firstServer=0A000001 was decoded, to 10.0.0.1
C17_Witness ==
    /\ last.called /\ HexAddressLine(last.before, "first_server")
    /\ ValueOf(TokensOf(LineOf(last.before))[2])
           = <<"0", "A", "0", "0", "0", "0", "0", "1">>
    /\ Returned(last.res)
    /\ unwrap(last.res.val).first_server = Some(<<10, 0, 0, 1>>)

CountCommas(v) == Cardinality({i \in 1..Len(v) : v[i] = ","})

RECURSIVE JoinWithCommas(_)
\* the elements of a list, one comma between them
JoinWithCommas(l) ==
    IF Len(l) = 0 THEN <<>>
    ELSE IF Len(l) = 1 THEN l[1]
    ELSE l[1] \o <<",">> \o JoinWithCommas(Tail(l))

\* the list holds the comma-separated segments of the value, in wire order
\* and verbatim: one element more than there are commas, no comma in an
\* element, and the elements with commas between them are the value
SegmentsOf(l, v) ==
    /\ Len(l) = CountCommas(v) + 1
    /\ \A i \in 1..Len(l) : CountCommas(l[i]) = 0
    /\ JoinWithCommas(l) = v

\* the first line is a type and one keyTypes token
KeyTypesLine(b) ==
    /\ HasLF(b) /\ IsText(LineOf(b)) /\ Len(TokensOf(LineOf(b))) = 2
    /\ CountEq(TokensOf(LineOf(b))[2]) = 1
    /\ KeyOf(TokensOf(LineOf(b))[2]) = WireKey("key_types")

\* C18: a keyTypes value is decoded to the list of its comma-separated
\* segments, in wire order and verbatim: a value with n commas gives n + 1
\* elements, empty segments are kept as empty strings (an empty value gives
\* the list of one empty string), nothing is trimmed and nothing left out.
C18_KeyTypesSegments ==
    /\ (last.called /\ KeyTypesLine(last.before)) =>
           /\ Returned(last.res)
           /\ is_some(unwrap(last.res.val).key_types)
           /\ SegmentsOf(unwrap(unwrap(last.res.val).key_types),
                         ValueOf(TokensOf(LineOf(last.before))[2]))
    /\ (DecodedLine /\ KeyOnLine(LineOf(last.before), WireKey("key_types"))) =>
           /\ is_some(unwrap(last.res.val).key_types)
           /\ SegmentsOf(unwrap(unwrap(last.res.val).key_types),
                         RightmostValue(LineOf(last.before), WireKey("key_types")))

\* keyTypes=a,,b was decoded, to three elements with an empty one between
C18_Witness ==
    /\ last.called /\ KeyTypesLine(last.before) /\ Returned(last.res)
    /\ ValueOf(TokensOf(LineOf(last.before))[2]) = <<"a", ",", ",", "b">>
    /\ unwrap(unwrap(last.res.val).key_types) = <<<<"a">>, <<>>, <<"b">>>>

---------------------------------------------------------------------------
(* The decoder fed in arrivals: the bytes of a stream reach the buffer in   *)
(* chunks of any size, and after each arrival decode is called until it     *)
(* says Ok(None), as Framed does; a failed call ends the calls              *)

InitChunk ==
    /\ stream \in LinesThenTail(MaxLines)
    /\ pending = stream /\ partial = FALSE
    /\ buf = <<>>
    /\ last = NoCall
    /\ msgs = <<>>
    /\ out = <<>>
    /\ enc = NoEncode
    /\ NoSession

\* the transport appends the next n bytes of the stream to the buffer
Arrive ==
    /\ last = NoCall \/ (last.called /\ Incomplete(last.res))
    /\ pending # <<>>
    /\ \E n \in 1..Len(pending) :
           /\ buf' = buf \o SubSeq(pending, 1, n)
           /\ pending' = SubSeq(pending, n + 1, Len(pending))
           /\ partial' = (partial \/ (n < Len(pending) /\ pending[n] # LF))
           /\ last' = [called |-> FALSE, before |-> buf \o SubSeq(pending, 1, n),
                       res |-> Ok(None)]
    /\ UNCHANGED <<msgs, stream, out, enc>>
    /\ UNCHANGED sessVars

\* one call of AuthCodec::decode(&mut buf): after an arrival, or after a call
\* that returned a message
ChunkDecode ==
    /\ ~last.called \/ Returned(last.res)
    /\ LET d == decode(buf)
       IN  /\ buf' = d.buf
           /\ last' = [called |-> TRUE, before |-> buf, res |-> d.res]
           /\ msgs' = IF d.res.kind = "Ok" /\ is_some(d.res.val)
                      THEN Append(msgs, unwrap(d.res.val)) ELSE msgs
    /\ UNCHANGED <<stream, pending, partial, out, enc>>
    /\ UNCHANGED sessVars

NextChunk == Arrive \/ ChunkDecode

SpecChunk == InitChunk /\ [][NextChunk]_vars

RECURSIVE DrainWhole(_, _)
\* decode called on a buffer until it returns no message: the messages, the
\* result of the last call and the buffer that is left
DrainWhole(b, acc) ==
    LET d == decode(b)
    IN  IF Returned(d.res) THEN DrainWhole(d.buf, Append(acc, unwrap(d.res.val)))
        ELSE [msgs |-> acc, res |-> d.res, buf |-> d.buf]

\* the calls have come to their end: everything arrived and decode said
\* Ok(None), or a call failed
Drained ==
    /\ last.called /\ ~Returned(last.res)
    /\ pending = <<>> \/ last.res.kind # "Ok"

\* C16: however the stream is cut into arrivals, with decode called until
\* Ok(None) after each, the messages returned, the way the calls end and the
\* bytes left over are those of decode called until Ok(None) on the whole
\* stream at once.
C16_ChunkingDoesNotMatter ==
    LET whole == DrainWhole(stream, <<>>)
    IN  /\ Len(msgs) <= Len(whole.msgs)
        /\ msgs = SubSeq(whole.msgs, 1, Len(msgs))
        /\ Drained =>
               /\ msgs = whole.msgs
               /\ last.res = whole.res
               /\ buf \o pending = whole.buf

\* two messages were returned and a tail is left, after an arrival that
\* ended in the middle of a line
C16_Witness ==
    /\ Drained /\ partial /\ pending = <<>>
    /\ Len(msgs) = 2 /\ Incomplete(last.res) /\ buf # <<>>

---------------------------------------------------------------------------
(* The encoder as a state machine: one message is encoded into an output   *)
(* buffer, and the buffer is then decoded as the peer's decoder would      *)

\* what the output buffer holds before the call
PriorOut == {<<>>, S_keepAliveCnf \o <<LF>>, <<"c", "o", "n">>}

AccessValues ==
    {None, Some(<<"o", "k">>), Some(<<"g", "r", "a", "n", "t", "e", "d">>),
     Some(<<>>), Some(<<"a", SP, "b">>), Some(<<"a", EQ, "b">>),
     Some(<<"a", LF, "b">>)}

TokenSeqValues == {None, Some(<<0>>), Some(<<7>>), Some(<<1, 0>>), Some(U32_MAX)}

\* the messages handed to encode: every type, access and tokenSeq set or
\* not, and request fields that encode does not write
OutMessages ==
    {[AuthMessage_default EXCEPT !.message_type = t, !.access = a,
                                 !.token_seq = n, !.mtu = u, !.cause = c] :
         t \in AuthMessageType, a \in AccessValues, n \in TokenSeqValues,
         u \in {None, Some(<<1, 5, 0, 0>>)}, c \in {None, Some(<<"x">>)}}

InitEnc ==
    /\ out \in PriorOut
    /\ enc = NoEncode
    /\ buf = <<>>
    /\ stream = <<>>
    /\ pending = <<>> /\ partial = FALSE
    /\ last = NoCall
    /\ msgs = <<>>
    /\ NoSession

\* one call of AuthCodec::encode(msg, &mut out)
Encode ==
    /\ ~enc.called
    /\ \E m \in OutMessages :
           LET e == encode(m, out)
           IN  /\ out' = e.buf
               /\ enc' = [called |-> TRUE, msg |-> m, before |-> out,
                          after |-> e.buf, res |-> e.res]
    /\ UNCHANGED <<buf, last, msgs, stream, pending, partial>>
    /\ UNCHANGED sessVars

\* one call of AuthCodec::decode(&mut out) on the buffer encode wrote to
DecodeOut ==
    /\ enc.called
    /\ last.res.kind # "Panic"
    /\ LET d == decode(out)
       IN  /\ out' = d.buf
           /\ last' = [called |-> TRUE, before |-> out, res |-> d.res]
           /\ msgs' = IF d.res.kind = "Ok" /\ is_some(d.res.val)
                      THEN Append(msgs, unwrap(d.res.val)) ELSE msgs
    /\ UNCHANGED <<buf, stream, pending, partial, enc>>
    /\ UNCHANGED sessVars

NextEnc == Encode \/ DecodeOut

SpecEnc == InitEnc /\ [][NextEnc]_vars

---------------------------------------------------------------------------
(* Properties of the encoder, under SpecEnc                                *)

\* the first decode call on the buffer an encode into the empty buffer wrote
FirstDecodeOfEncoded ==
    /\ enc.called /\ enc.before = <<>>
    /\ last.called /\ last.before = enc.after

\* only access and tokenSeq may be set
OnlyResponseFields(m) ==
    \A f \in FieldNames \ {"access", "token_seq"} : ~is_some(m[f])

\* C5: for a message M of a type other than Empty with no field set except
\* access and tokenSeq, encoding M into an empty buffer and decoding that
\* buffer returns a message with M's type, M's access, M's tokenSeq and no
\* other field set.
C5_RoundTrip ==
    (/\ FirstDecodeOfEncoded
     /\ enc.msg.message_type # "Empty"
     /\ OnlyResponseFields(enc.msg)) =>
        (Returned(last.res) /\ unwrap(last.res.val) = enc.msg)

\* the wire string of each message type
WireString(t) ==
    CASE t = "InfoReq" -> <<"i", "n", "f", "o", "R", "e", "q">>
      [] t = "KeepAliveReq" -> <<"k", "e", "e", "p", "A", "l", "i", "v", "e", "R", "e", "q">>
      [] t = "KeepAliveCnf" -> <<"k", "e", "e", "p", "A", "l", "i", "v", "e", "C", "n", "f">>
      [] t = "DiscInf" -> <<"d", "i", "s", "c", "I", "n", "f">>
      [] t = "DiscRsp" -> <<"d", "i", "s", "c", "R", "s", "p">>
      [] t = "ConnInf" -> <<"c", "o", "n", "n", "I", "n", "f">>
      [] t = "ConnRsp" -> <<"c", "o", "n", "n", "R", "s", "p">>
      [] t = "Unknown" -> <<"u", "n", "k", "n", "o", "w", "n">>

\* the decimal text of a number: the characters whose digit values are its
\* digits
DecimalText(v) ==
    [i \in 1..Len(v) |->
        CHOOSE c \in {DecChars[d] : d \in 1..Len(DecChars)} :
            to_digit(c, 10) = Some(v[i])]

\* the frame of a message of a type other than Empty
FrameOf(m) ==
    WireString(m.message_type)
    \o (IF is_some(m.access)
        THEN <<" ", "a", "c", "c", "e", "s", "s", "=">> \o unwrap(m.access)
        ELSE <<>>)
    \o (IF is_some(m.token_seq)
        THEN <<" ", "t", "o", "k", "e", "n", "S", "e", "q", "=">>
                 \o DecimalText(unwrap(m.token_seq))
        ELSE <<>>)
    \o <<"\n">>

\* C10: for a message of a type other than Empty, encode appends exactly the
\* type's wire string, then " access=<value>" if access is set, then
\* " tokenSeq=<decimal>" if tokenSeq is set, then "\n"; what the buffer held
\* stays as a prefix, no other field is written, and the call returns Ok.
C10_EncodeAppendsFrame ==
    (enc.called /\ enc.msg.message_type # "Empty") =>
        /\ enc.res.kind = "Ok"
        /\ enc.after = enc.before \o FrameOf(enc.msg)

\* access, tokenSeq and a field that is not written are set, the buffer was
\* not empty
C10_Witness ==
    /\ enc.called /\ enc.msg.message_type = "ConnRsp"
    /\ is_some(enc.msg.access) /\ is_some(enc.msg.token_seq)
    /\ is_some(enc.msg.mtu) /\ enc.before # <<>>
    /\ out = enc.after

\* C11: encoding a message of type Empty leaves the output buffer exactly as
\* it was and returns Ok, whatever fields (access and tokenSeq among them)
\* the message has set.
C11_EmptyWritesNothing ==
    (enc.called /\ enc.msg.message_type = "Empty") =>
        (enc.res.kind = "Ok" /\ enc.after = enc.before)

\* an Empty message with access, tokenSeq and other fields set was encoded
\* into a buffer that already held bytes
C11_Witness ==
    /\ enc.called /\ enc.msg.message_type = "Empty"
    /\ is_some(enc.msg.access) /\ is_some(enc.msg.token_seq)
    /\ is_some(enc.msg.mtu) /\ is_some(enc.msg.cause)
    /\ enc.before # <<>> /\ out = enc.before

\* the bytes the encode call appended
Appended == SubSeq(enc.after, Len(enc.before) + 1, Len(enc.after))

\* the peer has called decode on the output until it returned no message
PeerDrained == enc.called /\ last.called /\ ~Returned(last.res)

\* C19: an encode call for a message of a type other than Empty appends
\* exactly one frame: what the buffer held stays in front, the appended bytes
\* hold exactly one 0x0A byte and it is their last, whatever the access
\* string holds (whitespace, '=' and "\n" included); so a peer that calls
\* decode on the output of one such call gets exactly one message.
C19_OneDelimiterPerFrame ==
    (enc.called /\ enc.msg.message_type # "Empty") =>
        /\ Len(enc.before) < Len(enc.after)
        /\ enc.before = SubSeq(enc.after, 1, Len(enc.before))
        /\ Cardinality({i \in 1..Len(Appended) : Appended[i] = "\n"}) = 1
        /\ Appended[Len(Appended)] = "\n"
        /\ (PeerDrained /\ enc.before = <<>>) =>
               (Len(msgs) = 1 /\ Incomplete(last.res))

---------------------------------------------------------------------------
(* The pipelined session: AuthProto binds AuthCodec to a connection, and   *)
(* the server runs one session per connection, all in one process.  Each   *)
(* session decodes a request, calls the handler, encodes its result, and   *)
(* only then decodes the next request.  An Err from decode ends the        *)
(* session; a panic in decode aborts the process.                          *)

\* the most request lines the clients send, over all connections
MaxReqs == 3

\* the lines clients send: two the decoder accepts, one it answers with Err,
\* one that makes it panic
SessLines ==
    {S_keepAliveReq, S_connRsp \o <<SP>> \o kv(S_tokenSeq, <<"7">>),
     S_connInf \o <<SP>> \o S_MTU, S_infoReq \o <<SP>> \o kv(S_MTU, <<"x">>)}

RECURSIVE SessStreams(_)
\* the byte streams of up to n complete lines
SessStreams(n) ==
    IF n = 0 THEN {<<>>}
    ELSE SessStreams(n - 1)
         \cup {l \o <<LF>> \o r : l \in SessLines, r \in SessStreams(n - 1)}

\* AuthenticationService::call: the request is the response
call(req) == req

\* what a handler bound to the session may answer: the service of main.rs
\* echoes; a handler that has nothing to send answers the Empty message
Service_call(req) == {call(req), AuthMessage_default}

InitSession ==
    /\ sent \in {w \in [Conns -> SessStreams(MaxReqs)] :
                    Len(CompleteLines(w["c1"])) + Len(CompleteLines(w["c2"]))
                        <= MaxReqs}
    /\ wire = sent
    /\ rd = [c \in Conns |-> <<>>]
    /\ wr = [c \in Conns |-> <<>>]
    /\ pc = [c \in Conns |-> "decode"]
    /\ reqs = [c \in Conns |-> <<>>]
    /\ resps = [c \in Conns |-> <<>>]
    /\ encoded = [c \in Conns |-> <<>>]
    /\ proc = "running"
    /\ buf = <<>> /\ stream = <<>> /\ last = NoCall /\ msgs = <<>>
    /\ pending = <<>> /\ partial = FALSE
    /\ out = <<>> /\ enc = NoEncode

\* the transport reads from the connection once decode has said Ok(None):
\* the next line, or everything the client has sent
Read(c) ==
    /\ proc = "running" /\ pc[c] = "decode"
    /\ ~HasLF(rd[c]) /\ wire[c] # <<>>
    /\ \E n \in {FirstLF(wire[c]), Len(wire[c])} :
           /\ rd' = [rd EXCEPT ![c] = rd[c] \o SubSeq(wire[c], 1, n)]
           /\ wire' = [wire EXCEPT ![c] = SubSeq(wire[c], n + 1, Len(wire[c]))]
    /\ UNCHANGED <<sent, wr, pc, reqs, resps, encoded, proc>>
    /\ UNCHANGED codecVars

\* the transport calls decode on its read buffer: a message goes to the
\* handler, an Err ends the session, a panic aborts the process
SessDecode(c) ==
    /\ proc = "running" /\ pc[c] = "decode"
    /\ HasLF(rd[c])
    /\ LET d == decode(rd[c])
       IN  /\ rd' = [rd EXCEPT ![c] = d.buf]
           /\ IF d.res.kind = "Ok"
              THEN /\ reqs' = [reqs EXCEPT ![c] = Append(reqs[c], unwrap(d.res.val))]
                   /\ pc' = [pc EXCEPT ![c] = "call"]
                   /\ proc' = proc
              ELSE IF d.res.kind = "Err"
              THEN /\ pc' = [pc EXCEPT ![c] = "failed"]
                   /\ UNCHANGED <<reqs, proc>>
              ELSE /\ pc' = [pc EXCEPT ![c] = "panicked"]
                   /\ proc' = "aborted"
                   /\ UNCHANGED reqs
    /\ UNCHANGED <<sent, wire, wr, resps, encoded>>
    /\ UNCHANGED codecVars

\* the client has closed the stream and nothing is left to decode
Close(c) ==
    /\ proc = "running" /\ pc[c] = "decode"
    /\ ~HasLF(rd[c]) /\ wire[c] = <<>>
    /\ pc' = [pc EXCEPT ![c] = "closed"]
    /\ UNCHANGED <<sent, wire, rd, wr, reqs, resps, encoded, proc>>
    /\ UNCHANGED codecVars

\* the session hands the request to the handler and gets its one result
Call(c) ==
    /\ proc = "running" /\ pc[c] = "call"
    /\ \E r \in Service_call(reqs[c][Len(reqs[c])]) :
           resps' = [resps EXCEPT ![c] = Append(resps[c], r)]
    /\ pc' = [pc EXCEPT ![c] = "encode"]
    /\ UNCHANGED <<sent, wire, rd, wr, reqs, encoded, proc>>
    /\ UNCHANGED codecVars

\* the session encodes the handler's result into the write buffer
SessEncode(c) ==
    /\ proc = "running" /\ pc[c] = "encode"
    /\ LET r == resps[c][Len(resps[c])]
       IN  /\ wr' = [wr EXCEPT ![c] = encode(r, wr[c]).buf]
           /\ encoded' = [encoded EXCEPT ![c] = Append(encoded[c], r)]
    /\ pc' = [pc EXCEPT ![c] = "decode"]
    /\ UNCHANGED <<sent, wire, rd, reqs, resps, proc>>
    /\ UNCHANGED codecVars

NextSession ==
    \E c \in Conns :
        Read(c) \/ SessDecode(c) \/ Close(c) \/ Call(c) \/ SessEncode(c)

SpecSession == InitSession /\ [][NextSession]_vars

---------------------------------------------------------------------------
(* Properties of the session, under SpecSession                            *)

\* the bytes a response puts on the stream: its frame, nothing for Empty
BytesOf(m) == IF m.message_type = "Empty" THEN <<>> ELSE FrameOf(m)

RECURSIVE FramesOf(_)
\* the frames of a sequence of responses, one after the other
FramesOf(ms) == IF ms = <<>> THEN <<>> ELSE BytesOf(Head(ms)) \o FramesOf(Tail(ms))

IsPrefix(a, b) == Len(a) <= Len(b) /\ a = SubSeq(b, 1, Len(a))

AnsweredEmpty(c) ==
    \E i \in 1..Len(encoded[c]) : encoded[c][i].message_type = "Empty"

\* the connection's next unanswered request is a complete well-formed line
\* that only well-formed lines precede
NextRequestWaits(c) ==
    LET ls == CompleteLines(sent[c])
    IN  /\ Len(encoded[c]) < Len(ls)
        /\ \A i \in 1..(Len(encoded[c]) + 1) : WellFormedLine(ls[i])

\* the session of the connection can take its next step
CanStep(c) == proc = "running" /\ pc[c] \in {"decode", "call", "encode"}

\* C7: an Empty result puts no bytes on the stream, and it does not block
\* the session: while a later complete well-formed request of the connection
\* is unanswered, the session can still decode, handle and answer it.
C7_EmptyDoesNotBlock ==
    \A c \in Conns :
        /\ wr[c] = FramesOf(encoded[c])
        /\ (AnsweredEmpty(c) /\ NextRequestWaits(c)) => CanStep(c)

\* the decode call of the connection failed: it returned Err or panicked
Failed(c) == pc[c] \in {"failed", "panicked"}

\* the number of lines before the first line of the stream that is not
\* well-formed
RECURSIVE GoodLinesBefore(_)
GoodLinesBefore(ls) ==
    IF ls = <<>> \/ ~WellFormedLine(Head(ls)) THEN 0
    ELSE 1 + GoodLinesBefore(Tail(ls))

\* C8: once decode fails on a connection its session has ended: no line
\* after the malformed one is decoded, handled or answered; and the
\* sessions of the other connections go on.
C8_FailureEndsOnlyItsSession ==
    \A c \in Conns :
        Failed(c) =>
            /\ Len(reqs[c]) = GoodLinesBefore(CompleteLines(sent[c]))
            /\ Len(resps[c]) <= Len(reqs[c])
            /\ Len(encoded[c]) <= Len(reqs[c])
            /\ \A d \in Conns \ {c} :
                   pc[d] \in {"decode", "call", "encode"} => proc = "running"

=============================================================================
